---- MODULE Spec2Model ----
(***************************************************************************)
(* hulk-react-utils: the auth state store of withHulk (src/src/hoc.tsx),   *)
(* the fetch dispatcher of useHulkFetch and the alert channel of           *)
(* useHulkAlert (src/src/hooks.ts).                                        *)
(*                                                                         *)
(* One step of the model is one run-to-completion segment of JavaScript:   *)
(* the code between two awaits of dispatch, one call of update/reset, one  *)
(* call of push/pop, or one render of the component that uses the hook.    *)
(*                                                                         *)
(* Spec explores the store together with the dispatcher, FetchSpec the     *)
(* dispatcher under every callback and redirect configuration, AlertSpec   *)
(* the alert channel, QuerySpec the URLs a chain sends, ParserSpec the     *)
(* error parsing helpers of src/src/helpers.ts, ConcurrentSpec two         *)
(* dispatch calls pending together, InstanceSpec the same with renders of  *)
(* the component in between, RequestSpec the requests one retry chain      *)
(* sends, and LiveSpec the dispatcher under the assumption that awaited    *)
(* calls return.                                                           *)
(***************************************************************************)
EXTENDS Integers, Sequences, FiniteSets, TLC

\* JavaScript undefined / null (both are "nullish" for ?? and ?.)
NONE == "undefined"

----------------------------------------------------------------------------
\* Bounds of the model

\* what the application does in one run: top-level dispatch calls, update and
\* reset calls, and renders of the hook's component after the first one
MaxCalls == 3
\* alert entries the document holds at the same time
MaxEntries == 3
MaxKeys == 2
MaxFields == 2
MaxItems == 2
\* Program constant: hooks.ts line 342
maxThreshold == 5

----------------------------------------------------------------------------
\* Value domains

\* access_token values; "" is a token object with an empty access_token
StoredTokens == {"", "a"}
RefreshTokens == {"b"}
\* credentials of a refresh collaborator that rotates them
RotatingTokens == RefreshTokens \cup {"c"}
Users == {"u1", "u2"}

\* config.defaultAuthState ?? {}
EmptyAuthState == [token |-> NONE, user |-> NONE]

HeaderNames == {"content-type", "authorization"}
EmptyHeaders == [h \in HeaderNames |-> NONE]

Bearer(tok) == "Bearer " \o tok

\* An optional object (a property that may be missing): {} or {object}
Nothing == {}
Some(v) == {v}
Get(m) == CHOOSE v \in m : TRUE

\* default headers a configuration may carry
DefaultHeaderChoices ==
    { Nothing,
      Some([EmptyHeaders EXCEPT !["content-type"] = "json"]) }

\* headers a caller may pass to dispatch (Nothing: no headers key)
CallerHeaderChoices ==
    { Nothing,
      Some([EmptyHeaders EXCEPT !["authorization"] = "Basic x"]) }

BaseUrls == {"", "https://api.test.com"}

\* the dispatch chains that may be in flight at the same time
Slots == {"A"}

\* responses of the server: status and body; a body is a JSON payload or text
\* that response.json() cannot parse
Statuses == {200, 401, 403, 404}
Payloads == {"P1", "P2"}
Bodies == Payloads \cup {"text"}
Responses == [status : Statuses, body : Bodies]
\* one payload is enough where the store, not the payload, is observed
OnePayloadResponses == {r \in Responses : r.body # "P2"}

\* the lifecycle callbacks (HulkFetchOptionsProps)
Callbacks == {"onPending", "onSuccess", "onError"}

\* usePathname() of the page, and the configured unauthorizedRedirectUrl
Pathnames == {"/dashboard", "/login"}
RedirectUrls == {NONE, "/login"}

\* alert containers (elements looked up by targetId), alert ids and contents;
\* "" is a node that is falsy
TargetIds == {"hulk-global-alert-target", "custom-target"}
AlertIds == {"x", "y"}
Contents == {"", "A", "B"}

\* alertGlobalOptions of hulkGlobalConfigDefault
DefaultAlertOptions ==
    [targetId |-> "hulk-global-alert-target", replaceDuplicates |-> TRUE]
AlertGlobalOptions ==
    [targetId : {"hulk-global-alert-target"}, replaceDuplicates : BOOLEAN]

\* arguments of push and pop (HulkAlertOptionsProps)
AlertOptions == [alertId : AlertIds, targetId : TargetIds \cup {NONE}]

\* a container element with no alert in it; parent is the id of the container
\* element it lies in, NONE when it lies in no other container
Container(id, parent) == [id |-> id, parent |-> parent, children |-> <<>>]

\* documents before any alert: the containers that exist, listed in the order
\* in which their entries come in the document. A container that lies in
\* another one was there before any alert, so its entries come first
EmptyDocuments ==
    { <<>> } \cup
    { <<Container(t, NONE)>> : t \in TargetIds } \cup
    { <<Container(p[1], NONE), Container(p[2], NONE)>> :
          p \in {q \in TargetIds \X TargetIds : q[1] # q[2]} } \cup
    { <<Container(p[1], p[2]), Container(p[2], NONE)>> :
          p \in {q \in TargetIds \X TargetIds : q[1] # q[2]} }

\* configurations passed to withHulk (HulkGlobalConfigProps)
Configs ==
    [ defaultAuthState : {Nothing, Some([token |-> "a", user |-> "u1"])},
      baseUrl : BaseUrls,
      defaultHeaders : DefaultHeaderChoices,
      accessTokenRetriever : BOOLEAN,
      errorParser : {NONE, "hulkFetchErrorParser"},
      unauthorizedRedirectUrl : {"/login"},
      pathname : {"/dashboard"},
      onGlobal : {Callbacks},
      onOptions : {{}},
      alertGlobalOptions : {DefaultAlertOptions} ]

\* configurations of the dispatcher proper: which callbacks the hook's options
\* and the global options define, and where the page and the redirect target are
FetchConfigs ==
    [ defaultAuthState : {Some([token |-> "a", user |-> "u1"])},
      baseUrl : {"https://api.test.com"},
      defaultHeaders : {Nothing},
      accessTokenRetriever : BOOLEAN,
      errorParser : {NONE, "hulkFetchErrorParser"},
      unauthorizedRedirectUrl : RedirectUrls,
      pathname : Pathnames,
      onGlobal : {Callbacks, {"onPending"}, {}},
      onOptions : {{}, {"onPending", "onError"}},
      alertGlobalOptions : {DefaultAlertOptions} ]

\* the default configuration of withHulk, used on the page /dashboard
hulkGlobalConfigDefault ==
    [ defaultAuthState |-> Nothing,
      baseUrl |-> "",
      defaultHeaders |-> Some([EmptyHeaders EXCEPT !["content-type"] = "json"]),
      accessTokenRetriever |-> FALSE,
      errorParser |-> "hulkFetchErrorParser",
      unauthorizedRedirectUrl |-> "/login",
      pathname |-> "/dashboard",
      onGlobal |-> Callbacks,
      onOptions |-> {},
      alertGlobalOptions |-> DefaultAlertOptions ]

\* configurations that differ in their alert options
AlertConfigs ==
    { [hulkGlobalConfigDefault EXCEPT !.alertGlobalOptions = a] :
          a \in AlertGlobalOptions }

\* arguments of a top-level dispatch call (HulkFetchProps)
Inits == [headers : CallerHeaderChoices, clearThreshold : BOOLEAN]

\* dispatch calls that pass no headers
PlainInits == {init \in Inits : init.headers = Nothing}

\* arguments of auth.update (HulkAuthStateProps)
Updates == [token : {"", NONE}, user : {"u2", NONE}]

----------------------------------------------------------------------------
VARIABLES
    config,         \* the configuration given to withHulk; never changes
    hulkAuthState,  \* the React state of AuthenticatedComponent
    closures,       \* one entry per render of the hook: what its dispatch closes over
    chain,          \* per slot: the dispatch invocation in flight and its history
    fetchData,      \* the data state of the hook (useState in useHulkFetch)
    document,       \* the alert containers of the page and their entries
    alertThrew,     \* the last push or pop raised an error
    request,        \* one dispatch chain seen from the URLs it sends
    parse,          \* one call of an error parsing helper: argument and result
    nDispatch,      \* top-level dispatch calls so far
    nStoreOps       \* update/reset calls by the application so far

vars == <<config, hulkAuthState, closures, chain, fetchData, document,
          alertThrew, request, parse, nDispatch, nStoreOps>>

\* what the store and the dispatcher leave alone
alertVars == <<document, alertThrew>>

\* the state of the URL construction and of the parsing helpers
helperVars == <<request, parse>>

\* what the alert operations leave alone
fetchVars == <<hulkAuthState, closures, chain, fetchData, nDispatch, nStoreOps>>

IdleChain ==
    [ pc |-> "idle",            \* idle | fetch | refresh | resolved | rejected
      cl |-> 0,                 \* index of the closure this chain runs in
      sent |-> [headers |-> EmptyHeaders, clearThreshold |-> FALSE],  \* init of the last fetch
      status |-> 0,             \* status of the response being handled
      accessResponse |-> NONE,  \* result of the last refresh call
      calls |-> 0,              \* network calls of this chain
      refreshes |-> 0,          \* refresh calls of this chain
      retries |-> 0,            \* granted refresh-retries of this chain
      log |-> <<>>,             \* callback notifications, in order
      redirects |-> <<>>,       \* calls of redirect, each with the log length before it
      updates |-> <<>>,         \* calls of hulk.auth.update, each with the log length before it
      branch |-> "none",        \* how the chain ended
      alone |-> TRUE,           \* no other dispatch call overlapped or followed
      clearRequested |-> FALSE, \* the caller passed clearThreshold: true
      thresholdAtCall |-> 0 ]   \* the counter that a clearThreshold call found

\* the application has calls left
CanCall == nDispatch + nStoreOps + (Len(closures) - 1) < MaxCalls

InFlight(c) == chain[c].pc \in {"fetch", "refresh"}
Terminal(c) == chain[c].pc \in {"resolved", "rejected"}

----------------------------------------------------------------------------
\* AuthStateStore: withHulk (hoc.tsx)

\* useState(config.defaultAuthState ?? {})
InitialAuthState(cfg) ==
    IF cfg.defaultAuthState # Nothing THEN Get(cfg.defaultAuthState) ELSE EmptyAuthState

\* update that replaces the state instead of merging into it
update_replace(prevState, data) == [token |-> data.token, user |-> data.user]

\* the functional updater of update(data)
update(prevState, data) ==
    [ token |-> IF data.token # NONE THEN data.token ELSE prevState.token,
      user  |-> IF data.user # NONE THEN data.user ELSE prevState.user ]

\* reset that clears the state instead of restoring the configured one
reset_empty(cfg) == EmptyAuthState

\* reset(): setHulkAuthState(config.defaultAuthState ?? {})
reset(cfg) == InitialAuthState(cfg)

\* isAuthenticated that tests the token object, not its access_token
isAuthenticated_object(state) == state.token # NONE

\* isAuthenticated(): !!hulkAuthState.token?.access_token
isAuthenticated(state) == state.token # NONE /\ state.token # ""

----------------------------------------------------------------------------
\* Helpers: parseErrorText, capitalizeFirstLetter, hulkFetchErrorParser
\* (helpers.ts)

\* scalar values of JavaScript: string, number, boolean, null, undefined
\* and the arrays and objects of JSON; an object lists its entries as
\* Object.entries does
Value(t, s, n, b, items, entries) ==
    [t |-> t, s |-> s, n |-> n, b |-> b, items |-> items, entries |-> entries]
Str(s) == Value("string", s, 0, FALSE, <<>>, <<>>)
Num(n) == Value("number", "", n, FALSE, <<>>, <<>>)
Bool(b) == Value("boolean", "", 0, b, <<>>, <<>>)
NaN == Value("NaN", "", 0, FALSE, <<>>, <<>>)
Null == Value("null", "", 0, FALSE, <<>>, <<>>)
Undefined == Value("undefined", "", 0, FALSE, <<>>, <<>>)
Array(items) == Value("array", "", 0, FALSE, items, <<>>)
Object(entries) == Value("object", "", 0, FALSE, <<>>, entries)

Digit(d) ==
    CASE d = 0 -> "0" [] d = 1 -> "1" [] d = 2 -> "2" [] d = 3 -> "3" [] d = 4 -> "4"
      [] d = 5 -> "5" [] d = 6 -> "6" [] d = 7 -> "7" [] d = 8 -> "8" [] d = 9 -> "9"

RECURSIVE NatToString(_)
NatToString(n) == IF n < 10 THEN Digit(n) ELSE NatToString(n \div 10) \o Digit(n % 10)

\* Number.prototype.toString on an integer
NumberToString(n) == IF n < 0 THEN "-" \o NatToString(-n) ELSE NatToString(n)

\* keys are sequences of characters, so that the first one can be capitalized
JsonKeys ==
    { <<>>, <<"e", "m", "a", "i", "l">>, <<"d", "e", "t", "a", "i", "l">> }
messageKey == <<"m", "e", "s", "s", "a", "g", "e">>
codeKey == <<"c", "o", "d", "e">>

\* the parsed bodies: scalars, objects with or without a message, arrays of
\* them, and objects whose fields hold any of these
ItemScalars == {Str("Required"), Str(""), Num(0), Bool(FALSE), Null}
ItemObjects ==
    { Object(<<[key |-> messageKey, value |-> Str("Not found")]>>),
      Object(<<[key |-> messageKey, value |-> Str("")]>>),
      Object(<<[key |-> codeKey, value |-> Num(5)]>>) }
JsonArrays ==
    { Array(a) : a \in UNION { [1..n -> ItemScalars \cup ItemObjects] : n \in 0..MaxItems } }
FieldScalars == {Str("Required"), Num(0), Bool(FALSE), Null}
FieldObjects ==
    { Object(<<[key |-> messageKey, value |-> Str("Not found")]>>),
      Object(<<[key |-> codeKey, value |-> Num(5)]>>) }
FieldArrays ==
    { Array(a) : a \in UNION { [1..n -> {Str("Required"), Null}] : n \in 0..MaxItems } }
JsonObjects ==
    { Object(o) :
        o \in { f \in UNION { [1..n -> [ key : JsonKeys,
                                         value : FieldScalars \cup FieldObjects
                                                     \cup FieldArrays ]] :
                                 n \in 0..MaxFields } :
                   \A i, j \in 1..Len(f) : i # j => f[i].key # f[j].key } }
JsonValues == ItemScalars \cup JsonArrays \cup JsonObjects

\* characters to one string
RECURSIVE Concat(_)
Concat(chars) == IF chars = <<>> THEN "" ELSE Head(chars) \o Concat(Tail(chars))

\* String(value)
RECURSIVE String(_)
String(value) ==
    CASE value.t = "string" -> value.s
      [] value.t = "number" -> NumberToString(value.n)
      [] value.t = "NaN" -> "NaN"
      [] value.t = "boolean" -> IF value.b THEN "true" ELSE "false"
      [] value.t = "null" -> "null"
      [] value.t = "undefined" -> "undefined"
      [] value.t = "object" -> "[object Object]"
      [] value.t = "array" ->
            LET Part(i) == IF value.items[i].t \in {"null", "undefined"} THEN ""
                           ELSE String(value.items[i])
                Joined[i \in 0..Len(value.items)] ==
                    IF i = 0 THEN ""
                    ELSE IF i = 1 THEN Part(1)
                    ELSE Joined[i - 1] \o "," \o Part(i)
            IN  Joined[Len(value.items)]

\* the text JSON.parse reads a value from
RECURSIVE JsonText(_)
JsonText(value) ==
    CASE value.t = "string" -> "\"" \o value.s \o "\""
      [] value.t = "array" ->
            LET Joined[i \in 0..Len(value.items)] ==
                    IF i = 0 THEN ""
                    ELSE (IF i = 1 THEN "" ELSE Joined[i - 1] \o ",")
                         \o JsonText(value.items[i])
            IN  "[" \o Joined[Len(value.items)] \o "]"
      [] value.t = "object" ->
            LET Field(i) == "\"" \o Concat(value.entries[i].key) \o "\":"
                            \o JsonText(value.entries[i].value)
                Joined[i \in 0..Len(value.entries)] ==
                    IF i = 0 THEN ""
                    ELSE (IF i = 1 THEN "" ELSE Joined[i - 1] \o ",") \o Field(i)
            IN  "{" \o Joined[Len(value.entries)] \o "}"
      [] OTHER -> String(value)

\* a body text: what it reads and, when it is valid JSON, what JSON.parse
\* makes of it
PlainText(raw) == [raw |-> raw, json |-> Nothing]
Json(value) == [raw |-> JsonText(value), json |-> Some(value)]
Texts ==
    { PlainText(raw) : raw \in {"", "not json", "Server error occurred"} } \cup
    { Json(value) : value \in JsonValues }

\* value.message: undefined unless the value is an object with that key; on
\* null the access is a TypeError (PropertyThrows)
PropertyThrows(value) == value.t \in {"null", "undefined"}
Message(value) ==
    IF value.t = "object" /\ \E i \in 1..Len(value.entries) : value.entries[i].key = messageKey
    THEN value.entries[CHOOSE i \in 1..Len(value.entries) :
                           value.entries[i].key = messageKey].value
    ELSE Undefined

\* the left operand of || decides
Truthy(value) ==
    CASE value.t = "string" -> value.s # ""
      [] value.t = "number" -> value.n # 0
      [] value.t = "boolean" -> value.b
      [] value.t \in {"null", "undefined", "NaN"} -> FALSE
      [] OTHER -> TRUE

\* item.message || String(item)
MessageOrString(item) ==
    IF Truthy(Message(item)) THEN Message(item) ELSE Str(String(item))

toUpperCase(ch) ==
    CASE ch = "e" -> "E" [] ch = "d" -> "D" [] ch = "m" -> "M" [] ch = "c" -> "C"
      [] OTHER -> ch

\* text.charAt(0).toUpperCase() + text.slice(1)
capitalizeFirstLetter(text) ==
    (IF text = <<>> THEN "" ELSE toUpperCase(Head(text))) \o
    (IF text = <<>> THEN "" ELSE Concat(Tail(text)))

\* key === "detail" ? null : capitalizeFirstLetter(key), then
\* formattedKey ? `${formattedKey}: ` : ""
Prefix(key) ==
    LET formattedKey == IF key = <<"d", "e", "t", "a", "i", "l">> THEN ""
                        ELSE capitalizeFirstLetter(key)
    IN  IF formattedKey # "" THEN formattedKey \o ": " ELSE ""

\* the lines of one entry of the object branch
EntryLines(entry) ==
    IF entry.value.t = "array"
    THEN [i \in 1..Len(entry.value.items) |->
             Prefix(entry.key) \o String(MessageOrString(entry.value.items[i]))]
    ELSE <<Prefix(entry.key) \o String(MessageOrString(entry.value))>>

\* the object branch throws a TypeError on value.message or item.message
EntryThrows(entry) ==
    IF entry.value.t = "array"
    THEN \E i \in 1..Len(entry.value.items) : PropertyThrows(entry.value.items[i])
    ELSE PropertyThrows(entry.value)

\* parseErrorText(errorText): the catch takes every exception of the try
\* block, the TypeErrors of the two branches as well as that of JSON.parse
parseErrorText(errorText) ==
    IF errorText.json = Nothing THEN <<errorText.raw>>
    ELSE LET parsed == Get(errorText.json)
         IN  IF parsed.t = "array"
             THEN IF \E i \in 1..Len(parsed.items) : PropertyThrows(parsed.items[i])
                  THEN <<errorText.raw>>
                  ELSE [i \in 1..Len(parsed.items) |->
                           IF parsed.items[i].t \in {"object", "array"}
                           THEN MessageOrString(parsed.items[i]).s
                           ELSE String(parsed.items[i])]
             ELSE IF parsed.t = "object"
             THEN IF \E i \in 1..Len(parsed.entries) : EntryThrows(parsed.entries[i])
                  THEN <<errorText.raw>>
                  ELSE LET Lines[i \in 0..Len(parsed.entries)] ==
                               IF i = 0 THEN <<>>
                               ELSE Lines[i - 1] \o EntryLines(parsed.entries[i])
                       IN  Lines[Len(parsed.entries)]
             ELSE <<String(parsed)>>

\* response.ok
Ok(status) == status >= 200 /\ status <= 299

\* a parser that builds an error object for every response
hulkFetchErrorParser_always(status, statusText, bodyUsed, body) ==
    [ throws |-> bodyUsed,
      undefined |-> FALSE,
      message |-> IF statusText # "" THEN statusText ELSE "An error occurred",
      code |-> status,
      details |-> parseErrorText(body) ]

\* hulkFetchErrorParser(response): response.text() rejects when the body was
\* read before; undefined for an ok response, else the error object
hulkFetchErrorParser(status, statusText, bodyUsed, body) ==
    [ throws |-> bodyUsed,
      undefined |-> ~bodyUsed /\ Ok(status),
      message |-> IF statusText # "" THEN statusText ELSE "An error occurred",
      code |-> status,
      details |-> parseErrorText(body) ]

----------------------------------------------------------------------------
\* FetchDispatcher: useHulkFetch (hooks.ts)

\* { ...a, ...b } on two header objects
Spread(a, b) == [h \in HeaderNames |-> IF b[h] # NONE THEN b[h] ELSE a[h]]

\* { ...m } of an optional header object: spreading undefined gives {}
Obj(m) == IF m = Nothing THEN EmptyHeaders ELSE Get(m)

\* init = { method, headers: {...defaultHeaders, ...init.headers}, ...init }:
\* the trailing ...init puts init.headers back when the caller gave headers
MergeInit(cfg, init) ==
    LET merged == Spread(Obj(cfg.defaultHeaders), Obj(init.headers))
    IN  [ headers |-> IF init.headers # Nothing THEN Get(init.headers) ELSE merged,
          clearThreshold |-> init.clearThreshold ]

\* if (hulk.auth.state.token) init.headers = {...init.headers, authorization}
AttachAuth(headers, token) ==
    IF token # NONE
    THEN Spread(headers, [EmptyHeaders EXCEPT !["authorization"] = Bearer(token)])
    ELSE headers

\* a dispatch that ignores clearThreshold
ClearThreshold_ignored(init, threshold) == threshold

\* if (init?.clearThreshold) threshold = 0
ClearThreshold(init, threshold) == IF init.clearThreshold THEN 0 ELSE threshold

\* validateThreshold with > for >=: grants one retry too many
validateThreshold_late(threshold) ==
    IF threshold > maxThreshold
    THEN [ok |-> FALSE, threshold |-> threshold]
    ELSE [ok |-> TRUE, threshold |-> threshold + 1]

\* validateThreshold that grants a retry without consuming a unit
validateThreshold_free(threshold) ==
    [ok |-> threshold < maxThreshold, threshold |-> threshold]

\* validateThreshold(): the answer and the counter afterwards
validateThreshold(threshold) ==
    IF threshold >= maxThreshold
    THEN [ok |-> FALSE, threshold |-> threshold]
    ELSE [ok |-> TRUE, threshold |-> threshold + 1]

\* a refresh check that consumes a unit before it looks at the credential
RetryCheck_eager(accessResponse, threshold) ==
    LET v == validateThreshold(threshold)
    IN  [ok |-> accessResponse # NONE /\ v.ok, threshold |-> v.threshold]

\* !(accessResponse === undefined || !validateThreshold()): the || does not
\* call validateThreshold when the refresh returned nothing
RetryCheck(accessResponse, threshold) ==
    IF accessResponse = NONE
    THEN [ok |-> FALSE, threshold |-> threshold]
    ELSE validateThreshold(threshold)

\* new URL(input, baseUrl) throws a TypeError unless baseUrl is an absolute URL
URLThrows(baseUrl) == baseUrl \notin {"https://api.test.com"}

\* a handler choice that lets the global callback win over the hook's
Handler_global(cfg, cb) ==
    IF cb \in cfg.onGlobal THEN "global"
    ELSE IF cb \in cfg.onOptions THEN "options" ELSE NONE

\* (options?.onX ?? hulk.fetchGlobalOptions?.onX)?.(...): the handler called
Handler(cfg, cb) ==
    IF cb \in cfg.onOptions THEN "options"
    ELSE IF cb \in cfg.onGlobal THEN "global" ELSE NONE

Notify(log, cb, arg, code) ==
    Append(log, [cb |-> cb, arg |-> arg, code |-> code, by |-> Handler(config, cb)])

\* response.statusText as the server sends it
StatusText(status) ==
    CASE status = 200 -> "OK"
      [] status = 401 -> "Unauthorized"
      [] status = 403 -> "Forbidden"
      [] OTHER -> ""

\* error construction that never consults the configured parser
ParseError_fallback(cfg, status, statusText, bodyUsed, fallback) ==
    [throws |-> FALSE, message |-> fallback, code |-> status]

\* errorParser ? await errorParser(response) : fallback
ParseError(cfg, status, statusText, bodyUsed, fallback) ==
    IF cfg.errorParser # NONE
    THEN hulkFetchErrorParser(status, statusText, bodyUsed, PlainText("text"))
    ELSE [throws |-> FALSE, message |-> fallback, code |-> status]

\* an error report that notifies onError twice
ReportError_twice(rec, branch, err) ==
    LET ended == Notify(rec.log, "onPending", "end", 0)
    IN  IF err.throws
        THEN [rec EXCEPT !.pc = "rejected", !.branch = "parser", !.log = ended]
        ELSE [rec EXCEPT !.pc = "resolved", !.branch = branch,
                         !.log = Notify(Notify(ended, "onError", err.message, err.code),
                                        "onError", err.message, err.code)]

\* onPending("end"), then the parser, then onError
ReportError(rec, branch, err) ==
    LET ended == Notify(rec.log, "onPending", "end", 0)
    IN  IF err.throws
        THEN [rec EXCEPT !.pc = "rejected", !.branch = "parser", !.log = ended]
        ELSE [rec EXCEPT !.pc = "resolved", !.branch = branch,
                         !.log = Notify(ended, "onError", err.message, err.code)]

\* a success branch that reports success before it closes the pending state
Success_early(rec, result) ==
    [rec EXCEPT !.pc = "resolved", !.branch = "success", !.status = 200,
                !.log = Notify(Notify(@, "onSuccess", result, 0),
                               "onPending", "end", 0)]

\* The 2xx branch after setData(result): onPending("end"), onSuccess(result)
Success(rec, result) ==
    [rec EXCEPT !.pc = "resolved", !.branch = "success", !.status = 200,
                !.log = Notify(Notify(@, "onPending", "end", 0),
                               "onSuccess", result, 0)]

\* a redirect that does not look at the current path
Redirect_always(rec, cfg) ==
    [rec EXCEPT !.redirects = Append(@,
        [ url |-> cfg.unauthorizedRedirectUrl \o "?code=401&next=" \o cfg.pathname,
          after |-> Len(rec.log) ])]

\* if (pathname !== '' && unauthorizedRedirectUrl && pathname !== unauthorizedRedirectUrl)
\*     redirect(`${unauthorizedRedirectUrl}?code=401&next=${pathname}`)
Redirect(rec, cfg) ==
    IF /\ cfg.pathname # ""
       /\ cfg.unauthorizedRedirectUrl # NONE
       /\ cfg.pathname # cfg.unauthorizedRedirectUrl
    THEN [rec EXCEPT !.redirects = Append(@,
             [ url |-> cfg.unauthorizedRedirectUrl \o "?code=401&next=" \o cfg.pathname,
               after |-> Len(rec.log) ])]
    ELSE rec

\* an auth-expired branch that redirects before it notifies
AuthExpired_redirectFirst(rec) ==
    LET redirected == Redirect(rec, config)
    IN  ReportError(redirected, "authExpired",
                    ParseError(config, rec.status, StatusText(rec.status),
                               FALSE, "Unauthorized"))

\* The refresh-failed-or-exhausted branch after its update call:
\* onPending("end"), the parser on the 401/403 response, onError, redirect
AuthExpired(rec) ==
    LET reported == ReportError(rec, "authExpired",
                        ParseError(config, rec.status, StatusText(rec.status),
                                   FALSE, "Unauthorized"))
    IN  IF reported.pc = "resolved" THEN Redirect(reported, config) ELSE reported

\* an invocation whose caller, on the retry path, closes the pending state
\* before it recurses
Invoke_closing(rec, k, init, threshold) ==
    LET merged == MergeInit(config, init)
        cleared == ClearThreshold(merged, threshold)
        started == Notify(IF rec.calls > 0
                          THEN Notify(rec.log, "onPending", "end", 0)
                          ELSE rec.log, "onPending", "start", 0)
        headers == AttachAuth(merged.headers, closures[k].token)
    IN  [ threshold |-> cleared,
          rec |-> IF URLThrows(config.baseUrl)
                  THEN [rec EXCEPT !.pc = "rejected", !.branch = "url", !.cl = k,
                                   !.log = started]
                  ELSE [rec EXCEPT !.pc = "fetch", !.cl = k, !.log = started,
                                   !.sent = [merged EXCEPT !.headers = headers],
                                   !.calls = @ + 1] ]

\* One invocation of dispatch up to its await of fetch, in closure k whose
\* counter is threshold: the chain record and the counter afterwards
Invoke(rec, k, init, threshold) ==
    LET merged == MergeInit(config, init)
        cleared == ClearThreshold(merged, threshold)
        started == Notify(rec.log, "onPending", "start", 0)
        headers == AttachAuth(merged.headers, closures[k].token)
    IN  [ threshold |-> cleared,
          rec |-> IF URLThrows(config.baseUrl)
                  THEN [rec EXCEPT !.pc = "rejected", !.branch = "url", !.cl = k,
                                   !.log = started]
                  ELSE [rec EXCEPT !.pc = "fetch", !.cl = k, !.log = started,
                                   !.sent = [merged EXCEPT !.headers = headers],
                                   !.calls = @ + 1] ]

----------------------------------------------------------------------------
Init ==
    /\ config \in Configs
    /\ hulkAuthState = InitialAuthState(config)
    /\ closures = <<[token |-> InitialAuthState(config).token, threshold |-> 0]>>
    /\ chain = [c \in Slots |-> IdleChain]
    /\ fetchData = NONE
    /\ document = <<Container(config.alertGlobalOptions.targetId, NONE)>>
    /\ alertThrew = FALSE
    /\ request = Nothing
    /\ parse = Nothing
    /\ nDispatch = 0
    /\ nStoreOps = 0

\* The component that uses the hook renders again: a new dispatch closure
\* over the current auth state, with its own let threshold = 0
Render ==
    /\ CanCall
    /\ closures' = Append(closures, [token |-> hulkAuthState.token, threshold |-> 0])
    /\ UNCHANGED <<config, alertVars, helperVars, hulkAuthState, chain, fetchData, nDispatch, nStoreOps>>

\* The application calls auth.update(data)
Update(data) ==
    /\ CanCall
    /\ hulkAuthState' = update(hulkAuthState, data)
    /\ nStoreOps' = nStoreOps + 1
    /\ UNCHANGED <<config, alertVars, helperVars, closures, chain, fetchData, nDispatch>>

\* The application calls auth.reset()
Reset ==
    /\ CanCall
    /\ hulkAuthState' = reset(config)
    /\ nStoreOps' = nStoreOps + 1
    /\ UNCHANGED <<config, alertVars, helperVars, closures, chain, fetchData, nDispatch>>

\* The application calls the dispatch of render k with init
Dispatch(c, k, init) ==
    /\ CanCall
    /\ ~InFlight(c)
    /\ LET others == \E d \in DOMAIN chain \ {c} : InFlight(d)
           fresh == [IdleChain EXCEPT !.alone = ~others,
                                      !.clearRequested = init.clearThreshold,
                                      !.thresholdAtCall =
                                         IF init.clearThreshold
                                         THEN closures[k].threshold ELSE 0]
           r == Invoke(fresh, k, init, closures[k].threshold)
       IN  /\ chain' = [d \in DOMAIN chain |->
                          IF d = c THEN r.rec
                          ELSE [chain[d] EXCEPT !.alone = FALSE]]
           /\ closures' = [closures EXCEPT ![k].threshold = r.threshold]
    /\ nDispatch' = nDispatch + 1
    /\ UNCHANGED <<config, alertVars, helperVars, hulkAuthState, fetchData, nStoreOps>>

\* a data state that a dispatch without a result clears
setData_clearing(prev, response) ==
    IF response.status = 200 /\ response.body \in Payloads
    THEN response.body ELSE NONE

\* The data state after a response: setData(result) is reached in the 2xx
\* branch only, after response.json() has produced the result
setData(prev, response) ==
    IF response.status = 200 /\ response.body \in Payloads
    THEN response.body ELSE prev

\* a transport failure that also clears the auth state
FetchThrows_reset(c) ==
    /\ chain[c].pc = "fetch"
    /\ chain' = [chain EXCEPT ![c] =
          ReportError(@, "transport",
              ParseError(config, 500, "Network Error", FALSE, "Network error"))]
    /\ hulkAuthState' = reset_empty(config)
    /\ UNCHANGED <<config, alertVars, helperVars, closures, fetchData, nDispatch, nStoreOps>>

\* fetch rejects: transport failure
FetchThrows(c) ==
    /\ chain[c].pc = "fetch"
    /\ chain' = [chain EXCEPT ![c] =
          ReportError(@, "transport",
              ParseError(config, 500, "Network Error", FALSE, "Network error"))]
    /\ UNCHANGED <<config, alertVars, helperVars, hulkAuthState, closures, fetchData, nDispatch, nStoreOps>>

\* fetch resolves with a response: classification up to the next await
FetchResponds(c, response) ==
    /\ chain[c].pc = "fetch"
    /\ response.status # 200 => response.body = "text"
    /\ chain' = [chain EXCEPT ![c] =
          IF response.status \in {401, 403} /\ config.accessTokenRetriever
          THEN [@ EXCEPT !.pc = "refresh", !.status = response.status,
                         !.refreshes = @ + 1]
          ELSE IF response.status # 200
          THEN \* await response.text() reads the body before the parser runs
               ReportError([@ EXCEPT !.status = response.status], "http",
                   ParseError(config, response.status, StatusText(response.status),
                              TRUE,
                              IF StatusText(response.status) # ""
                              THEN StatusText(response.status)
                              ELSE "An error occurred"))
          ELSE IF response.body \notin Payloads
          THEN \* await response.json() rejects
               [@ EXCEPT !.pc = "rejected", !.branch = "json", !.status = 200]
          ELSE Success(@, response.body)]
    /\ fetchData' = setData(fetchData, response)
    /\ UNCHANGED <<config, alertVars, helperVars, hulkAuthState, closures, nDispatch, nStoreOps>>

\* accessTokenRetriever rejects
RefreshThrows(c) ==
    /\ chain[c].pc = "refresh"
    /\ chain' = [chain EXCEPT ![c] = [@ EXCEPT !.pc = "rejected", !.branch = "refresh"]]
    /\ UNCHANGED <<config, alertVars, helperVars, hulkAuthState, closures, fetchData, nDispatch, nStoreOps>>

\* accessTokenRetriever resolves with accessResponse (NONE: undefined)
RefreshReturns(c, accessResponse) ==
    /\ chain[c].pc = "refresh"
    /\ LET k == chain[c].cl
           v == RetryCheck(accessResponse, closures[k].threshold)
           \* both branches begin with a call of hulk.auth.update
           rec == [chain[c] EXCEPT
                      !.accessResponse = accessResponse,
                      !.updates = Append(@, [ clear |-> ~v.ok,
                                              after |-> Len(chain[c].log) ])]
       IN  IF ~v.ok
           THEN /\ hulkAuthState' = update(hulkAuthState, [token |-> NONE, user |-> NONE])
                /\ chain' = [chain EXCEPT ![c] = AuthExpired(rec)]
                /\ closures' = [closures EXCEPT ![k].threshold = v.threshold]
           ELSE LET retry == [ headers |-> Some(Spread(rec.sent.headers,
                                   [EmptyHeaders EXCEPT
                                       !["authorization"] = Bearer(accessResponse)])),
                               clearThreshold |-> FALSE ]
                    r == Invoke([rec EXCEPT !.retries = @ + 1], k, retry, v.threshold)
                IN  /\ hulkAuthState' = update(hulkAuthState,
                                               [token |-> accessResponse, user |-> NONE])
                    /\ chain' = [chain EXCEPT ![c] = r.rec]
                    /\ closures' = [closures EXCEPT ![k].threshold = r.threshold]
    /\ UNCHANGED <<config, alertVars, helperVars, fetchData, nDispatch, nStoreOps>>

Next ==
    \/ Render
    \/ \E data \in Updates : Update(data)
    \/ Reset
    \/ \E c \in Slots, k \in 1..Len(closures), init \in Inits : Dispatch(c, k, init)
    \/ \E c \in Slots : FetchThrows(c)
    \/ \E c \in Slots, response \in OnePayloadResponses : FetchResponds(c, response)
    \/ \E c \in Slots : RefreshThrows(c)
    \/ \E c \in Slots, accessResponse \in RefreshTokens \cup {NONE} :
          RefreshReturns(c, accessResponse)

Spec == Init /\ [][Next]_vars

\* The dispatcher proper: every combination of callbacks, page and redirect
\* target, with the dispatcher as the only writer of the store
FetchInit ==
    /\ config \in FetchConfigs
    /\ hulkAuthState = InitialAuthState(config)
    /\ closures = <<[token |-> InitialAuthState(config).token, threshold |-> 0]>>
    /\ chain = [c \in Slots |-> IdleChain]
    /\ fetchData = NONE
    /\ document = <<Container(config.alertGlobalOptions.targetId, NONE)>>
    /\ alertThrew = FALSE
    /\ request = Nothing
    /\ parse = Nothing
    /\ nDispatch = 0
    /\ nStoreOps = 0

FetchNext ==
    \/ \E c \in Slots, init \in PlainInits : Dispatch(c, 1, init)
    \/ \E c \in Slots : FetchThrows(c)
    \/ \E c \in Slots, response \in Responses : FetchResponds(c, response)
    \/ \E c \in Slots : RefreshThrows(c)
    \/ \E c \in Slots, accessResponse \in RotatingTokens \cup {NONE} :
          RefreshReturns(c, accessResponse)

FetchSpec == FetchInit /\ [][FetchNext]_vars

----------------------------------------------------------------------------
\* AlertChannel: useHulkAlert (hooks.ts)

\* document.getElementById(targetId): the index of the container, 0 for null
Target(doc, targetId) ==
    IF \E i \in 1..Len(doc) : doc[i].id = targetId
    THEN CHOOSE i \in 1..Len(doc) : doc[i].id = targetId
    ELSE 0

\* alertOptions.targetId ? getElementById(alertOptions.targetId)
\*                        : getElementById(hulk.alertGlobalOptions.targetId)
ResolveTarget(cfg, doc, alertOptions) ==
    Target(doc, IF alertOptions.targetId # NONE
                THEN alertOptions.targetId
                ELSE cfg.alertGlobalOptions.targetId)

\* the positions of the entries of a container that carry alertId
Positions(children, alertId) ==
    {j \in 1..Len(children) : children[j].id = alertId}

Min(S) == CHOOSE m \in S : \A n \in S : m <= n

\* document.getElementById(alertId): the first element with that id in
\* document order, as container and position; container 0 for null
getElementById(doc, alertId) ==
    LET holders == {i \in 1..Len(doc) : Positions(doc[i].children, alertId) # {}}
    IN  IF holders = {}
        THEN [container |-> 0, child |-> 0]
        ELSE [ container |-> Min(holders),
               child |-> Min(Positions(doc[Min(holders)].children, alertId)) ]

\* target.contains(element) for an element that is an entry of container i:
\* the target is that container or one that it lies in
RECURSIVE contains(_, _, _)
contains(doc, target, i) ==
    \/ i = target
    \/ /\ doc[i].parent # NONE
       /\ Target(doc, doc[i].parent) # 0
       /\ contains(doc, target, Target(doc, doc[i].parent))

\* target.removeChild(element) for an element that is an entry of container
\* element.container: a NotFoundError unless it is a direct child of the target
removeChild(doc, target, element) ==
    IF element.container = target
    THEN [ document |-> [doc EXCEPT ![target].children =
                            SubSeq(@, 1, element.child - 1) \o
                            SubSeq(@, element.child + 1, Len(@))],
           threw |-> FALSE ]
    ELSE [document |-> doc, threw |-> TRUE]

\* a push that replaces duplicates whatever replaceDuplicates says
push_replace(cfg, doc, node, alertOptions) ==
    LET target == ResolveTarget(cfg, doc, alertOptions)
        existingAlert == getElementById(doc, alertOptions.alertId)
        cleared == IF existingAlert.container # 0
                      /\ contains(doc, target, existingAlert.container)
                   THEN removeChild(doc, target, existingAlert)
                   ELSE [document |-> doc, threw |-> FALSE]
    IN  IF target # 0 /\ node # ""
        THEN IF cleared.threw
             THEN cleared
             ELSE [cleared EXCEPT !.document[target].children =
                      Append(@, [id |-> alertOptions.alertId, text |-> node])]
        ELSE [document |-> doc, threw |-> FALSE]

\* a push that falls back to the global container when the explicit one is missing
push_fallback(cfg, doc, node, alertOptions) ==
    LET explicit == ResolveTarget(cfg, doc, alertOptions)
        target == IF explicit # 0 THEN explicit
                  ELSE Target(doc, cfg.alertGlobalOptions.targetId)
    IN  IF target # 0 /\ node # ""
        THEN [ document |-> [doc EXCEPT ![target].children =
                                Append(@, [id |-> alertOptions.alertId, text |-> node])],
               threw |-> FALSE ]
        ELSE [document |-> doc, threw |-> FALSE]

\* push(node, alertOptions): the document afterwards, and whether it threw
push(cfg, doc, node, alertOptions) ==
    LET target == ResolveTarget(cfg, doc, alertOptions)
        existingAlert == getElementById(doc, alertOptions.alertId)
        cleared == IF /\ cfg.alertGlobalOptions.replaceDuplicates
                      /\ existingAlert.container # 0
                      /\ contains(doc, target, existingAlert.container)
                   THEN removeChild(doc, target, existingAlert)
                   ELSE [document |-> doc, threw |-> FALSE]
    IN  IF target # 0 /\ node # ""
        THEN IF cleared.threw
             THEN cleared
             ELSE [cleared EXCEPT !.document[target].children =
                      Append(@, [id |-> alertOptions.alertId, text |-> node])]
        ELSE [document |-> doc, threw |-> FALSE]

\* pop(alertOptions): the document afterwards, and whether it threw
pop(cfg, doc, alertOptions) ==
    LET target == ResolveTarget(cfg, doc, alertOptions)
        alertElement == getElementById(doc, alertOptions.alertId)
    IN  IF /\ target # 0
           /\ alertElement.container # 0
           /\ contains(doc, target, alertElement.container)
        THEN removeChild(doc, target, alertElement)
        ELSE [document |-> doc, threw |-> FALSE]

\* the alert entries of a document
Entries(doc) ==
    {<<i, j>> \in (1..Len(doc)) \X (1..MaxEntries + 1) : j <= Len(doc[i].children)}

AlertInit ==
    /\ config \in AlertConfigs
    /\ document \in EmptyDocuments
    /\ alertThrew = FALSE
    /\ request = Nothing
    /\ parse = Nothing
    /\ hulkAuthState = InitialAuthState(config)
    /\ closures = <<[token |-> InitialAuthState(config).token, threshold |-> 0]>>
    /\ chain = [c \in Slots |-> IdleChain]
    /\ fetchData = NONE
    /\ nDispatch = 0
    /\ nStoreOps = 0

\* The application calls alert.push(node, alertOptions)
Push(node, alertOptions) ==
    LET r == push(config, document, node, alertOptions)
    IN  /\ Cardinality(Entries(r.document)) <= MaxEntries
        /\ document' = r.document
        /\ alertThrew' = r.threw
        /\ UNCHANGED <<config, fetchVars, helperVars>>

\* The application calls alert.pop(alertOptions)
Pop(alertOptions) ==
    LET r == pop(config, document, alertOptions)
    IN  /\ document' = r.document
        /\ alertThrew' = r.threw
        /\ UNCHANGED <<config, fetchVars, helperVars>>

AlertNext ==
    \/ \E node \in Contents, alertOptions \in AlertOptions : Push(node, alertOptions)
    \/ \E alertOptions \in AlertOptions : Pop(alertOptions)

AlertSpec == AlertInit /\ [][AlertNext]_vars

----------------------------------------------------------------------------
\* URL and query construction of dispatch (hooks.ts)

QueryKeys == {"a", "b", "c"}
QueryValues ==
    { Undefined, NaN, Null, Num(0), Num(1), Num(10), Num(-1),
      Bool(TRUE), Bool(FALSE), Str("x"), Str("") }

\* a query object as Object.keys lists it: distinct keys, each with its value
Queries ==
    { q \in UNION { [1..n -> [key : QueryKeys, value : QueryValues]] : n \in 0..MaxKeys } :
          \A i, j \in 1..Len(q) : i # j => q[i].key # q[j].key }

\* arguments of a top-level dispatch call that matter for the URL
QueryInits == [query : {Nothing} \cup {Some(q) : q \in Queries}, clearThreshold : BOOLEAN]

\* value.toString() for a value that has the method
toString(value) ==
    CASE value.t = "string" -> value.s
      [] value.t = "number" -> NumberToString(value.n)
      [] value.t = "NaN" -> "NaN"
      [] value.t = "boolean" -> IF value.b THEN "true" ELSE "false"

\* a query loop that skips undefined only
AppendQuery_keepNaN(searchParams, query) ==
    LET Step(params, i) ==
            IF query[i].value = Undefined THEN params
            ELSE Append(params,
                     [ key |-> query[i].key,
                       value |-> IF query[i].value = Null THEN "null"
                                 ELSE toString(query[i].value) ])
        Loop[i \in 0..Len(query)] ==
            IF i = 0 THEN searchParams ELSE Step(Loop[i - 1], i)
    IN  Loop[Len(query)]

\* Object.keys(init.query).forEach(...): the search parameters afterwards
AppendQuery(searchParams, query) ==
    LET Step(params, i) ==
            IF query[i].value = Undefined \/ query[i].value = NaN THEN params
            ELSE Append(params,
                     [ key |-> query[i].key,
                       value |-> IF query[i].value = Null THEN "null"
                                 ELSE toString(query[i].value) ])
        Loop[i \in 0..Len(query)] ==
            IF i = 0 THEN searchParams ELSE Step(Loop[i - 1], i)
    IN  Loop[Len(query)]

\* url.search for parameters that need no escaping
RECURSIVE Join(_)
Join(searchParams) ==
    IF searchParams = <<>> THEN ""
    ELSE LET e == Head(searchParams)
         IN  e.key \o "=" \o e.value \o
             (IF Tail(searchParams) = <<>> THEN "" ELSE "&" \o Join(Tail(searchParams)))

search(searchParams) == IF searchParams = <<>> THEN "" ELSE "?" \o Join(searchParams)

\* new URL(input, baseUrl) for an input without a query, then the query loop
BuildURL(init) ==
    LET searchParams == IF init.query # Nothing
                        THEN AppendQuery(<<>>, Get(init.query))
                        ELSE <<>>
    IN  [searchParams |-> searchParams, search |-> search(searchParams)]

\* { ...init, clearThreshold: false, headers }: the arguments of the retry
RetryInit(init) == [init EXCEPT !.clearThreshold = FALSE]

QueryInit ==
    /\ config = hulkGlobalConfigDefault
    /\ hulkAuthState = InitialAuthState(config)
    /\ closures = <<[token |-> InitialAuthState(config).token, threshold |-> 0]>>
    /\ chain = [c \in Slots |-> IdleChain]
    /\ fetchData = NONE
    /\ document = <<Container(config.alertGlobalOptions.targetId, NONE)>>
    /\ alertThrew = FALSE
    \* the counter is what earlier chains of the closure left in it
    /\ \E init \in QueryInits, threshold \in 0..maxThreshold :
          request = [ asked |-> init, init |-> init, pc |-> "idle",
                      threshold |-> threshold, urls |-> <<>> ]
    /\ parse = Nothing
    /\ nDispatch = 0
    /\ nStoreOps = 0

\* The application calls dispatch(init): the URL of the first fetch
QueryDispatch ==
    /\ request.pc = "idle"
    /\ request' = [request EXCEPT
                      !.pc = "fetch",
                      !.threshold = ClearThreshold(request.init, @),
                      !.urls = Append(@, BuildURL(request.init))]
    /\ UNCHANGED <<config, fetchVars, alertVars, parse>>

\* 401/403 and a refresh that returns a credential: the recursive dispatch
\* when the counter grants it, the end of the chain otherwise
QueryRetry ==
    /\ request.pc = "fetch"
    /\ LET v == validateThreshold(request.threshold)
           retry == RetryInit(request.init)
       IN  request' =
             IF v.ok
             THEN [request EXCEPT
                      !.init = retry,
                      !.threshold = ClearThreshold(retry, v.threshold),
                      !.urls = Append(@, BuildURL(retry))]
             ELSE [request EXCEPT !.pc = "done"]
    /\ UNCHANGED <<config, fetchVars, alertVars, parse>>

\* any other outcome of the fetch ends the chain
QueryEnd ==
    /\ request.pc = "fetch"
    /\ request' = [request EXCEPT !.pc = "done"]
    /\ UNCHANGED <<config, fetchVars, alertVars, parse>>

QueryNext == QueryDispatch \/ QueryRetry \/ QueryEnd

QuerySpec == QueryInit /\ [][QueryNext]_vars

----------------------------------------------------------------------------
\* The requests of one retry chain: what fetch(url, init) is called with

\* the input of the hook: a path resolved against baseUrl
RetryInput == "/items"

\* methods and bodies a caller may pass (Nothing: the key is not given)
Methods == {Nothing, Some("POST")}
RequestBodies == {Nothing, Some("payload")}

\* arguments of a top-level dispatch call, with a query of at most one key
RequestInits ==
    [ query : {Nothing} \cup {Some(q) : q \in {r \in Queries : Len(r) <= 1}},
      method : Methods,
      body : RequestBodies,
      headers : CallerHeaderChoices,
      clearThreshold : BOOLEAN ]

\* configurations that differ in what the merge and the credential add
RetryConfigs ==
    { [hulkGlobalConfigDefault EXCEPT !.baseUrl = "https://api.test.com",
                                      !.accessTokenRetriever = TRUE,
                                      !.defaultHeaders = h,
                                      !.defaultAuthState = a] :
          h \in DefaultHeaderChoices,
          a \in {Nothing, Some([token |-> "a", user |-> "u1"])} }

\* The merge, the URL and the credential of one invocation: the arguments of
\* fetch(url, init) and the init the invocation holds afterwards
Request(cfg, token, init) ==
    LET headers == AttachAuth(MergeInit(cfg, init).headers, token)
        method == IF init.method # Nothing THEN Get(init.method) ELSE "GET"
    IN  [ url |-> cfg.baseUrl \o RetryInput \o BuildURL(init).search,
          method |-> method,
          body |-> init.body,
          headers |-> headers,
          init |-> [init EXCEPT !.method = Some(method),
                                !.headers = Some(headers)] ]

\* a retry that passes the headers alone
RetryRequest_bare(init, accessResponse) ==
    [ query |-> Nothing, method |-> Nothing, body |-> Nothing,
      headers |-> Some(Spread(Obj(init.headers),
                     [EmptyHeaders EXCEPT !["authorization"] = Bearer(accessResponse)])),
      clearThreshold |-> FALSE ]

\* { ...init, clearThreshold: false,
\*   headers: { ...init?.headers, authorization: `Bearer ${...}` } }
RetryRequest(init, accessResponse) ==
    [init EXCEPT
        !.clearThreshold = FALSE,
        !.headers = Some(Spread(Obj(init.headers),
                     [EmptyHeaders EXCEPT !["authorization"] = Bearer(accessResponse)]))]

\* the parts of a request other than its Authorization header
SameButAuthorization(r1, r2) ==
    /\ r1.url = r2.url
    /\ r1.method = r2.method
    /\ r1.body = r2.body
    /\ \A h \in HeaderNames \ {"authorization"} : r1.headers[h] = r2.headers[h]

RequestInit ==
    /\ config \in RetryConfigs
    /\ hulkAuthState = InitialAuthState(config)
    /\ closures = <<[token |-> InitialAuthState(config).token, threshold |-> 0]>>
    /\ chain = [c \in Slots |-> IdleChain]
    /\ fetchData = NONE
    /\ document = <<Container(config.alertGlobalOptions.targetId, NONE)>>
    /\ alertThrew = FALSE
    /\ \E init \in RequestInits :
          request = [ asked |-> init, init |-> init, pc |-> "idle", threshold |-> 0,
                      calls |-> 0, first |-> Nothing, sent |-> Nothing ]
    /\ parse = Nothing
    /\ nDispatch = 0
    /\ nStoreOps = 0

\* The application calls dispatch(init): the first fetch of the chain
RequestDispatch ==
    /\ request.pc = "idle"
    /\ LET r == Request(config, closures[1].token, request.init)
           sent == [url |-> r.url, method |-> r.method, body |-> r.body,
                    headers |-> r.headers]
       IN  request' = [request EXCEPT
                          !.pc = "fetch",
                          !.init = r.init,
                          !.threshold = ClearThreshold(request.init, @),
                          !.calls = 1,
                          !.first = Some(sent),
                          !.sent = Some(sent)]
    /\ UNCHANGED <<config, fetchVars, alertVars, parse>>

\* 401/403 and a refresh that returns accessResponse: update({token}) and the
\* recursive dispatch when the counter grants it, the end of the chain otherwise
RequestRetry(accessResponse) ==
    /\ request.pc = "fetch"
    /\ LET v == validateThreshold(request.threshold)
           retry == RetryRequest(request.init, accessResponse)
           r == Request(config, closures[1].token, retry)
       IN  IF v.ok
           THEN /\ request' = [request EXCEPT
                                  !.init = r.init,
                                  !.threshold = ClearThreshold(retry, v.threshold),
                                  !.calls = @ + 1,
                                  !.sent = Some([url |-> r.url, method |-> r.method,
                                                 body |-> r.body,
                                                 headers |-> r.headers])]
                /\ hulkAuthState' = update(hulkAuthState,
                                           [token |-> accessResponse, user |-> NONE])
           ELSE /\ request' = [request EXCEPT !.pc = "done"]
                /\ hulkAuthState' = update(hulkAuthState, [token |-> NONE, user |-> NONE])
    /\ UNCHANGED <<config, closures, chain, fetchData, nDispatch, nStoreOps, alertVars, parse>>

\* any other outcome of the fetch ends the chain
RequestEnd ==
    /\ request.pc = "fetch"
    /\ request' = [request EXCEPT !.pc = "done"]
    /\ UNCHANGED <<config, fetchVars, alertVars, parse>>

RequestNext ==
    \/ RequestDispatch
    \/ \E accessResponse \in RotatingTokens : RequestRetry(accessResponse)
    \/ RequestEnd

RequestSpec == RequestInit /\ [][RequestNext]_vars

----------------------------------------------------------------------------
\* Several dispatch calls in flight on one hook instance

\* the promises of dispatch that can be pending together
ConcurrentSlots == {"A", "B"}

\* responses and refresh results that drive both the retry path and its ends
ConcurrentResponses == {r \in OnePayloadResponses : r.status \in {200, 401}}

ConcurrentInit ==
    /\ config \in { cfg \in FetchConfigs :
                       /\ cfg.accessTokenRetriever
                       /\ cfg.errorParser = NONE
                       /\ cfg.unauthorizedRedirectUrl = NONE
                       /\ cfg.pathname = "/dashboard"
                       /\ cfg.onGlobal = Callbacks
                       /\ cfg.onOptions = {} }
    /\ hulkAuthState = InitialAuthState(config)
    /\ closures = <<[token |-> InitialAuthState(config).token, threshold |-> 0]>>
    /\ chain = [c \in ConcurrentSlots |-> IdleChain]
    /\ fetchData = NONE
    /\ document = <<Container(config.alertGlobalOptions.targetId, NONE)>>
    /\ alertThrew = FALSE
    /\ request = Nothing
    /\ parse = Nothing
    /\ nDispatch = 0
    /\ nStoreOps = 0

ConcurrentNext ==
    \/ \E c \in ConcurrentSlots, k \in 1..Len(closures), init \in PlainInits :
          Dispatch(c, k, init)
    \/ \E c \in ConcurrentSlots, response \in ConcurrentResponses :
          FetchResponds(c, response)
    \/ \E c \in ConcurrentSlots, accessResponse \in RefreshTokens \cup {NONE} :
          RefreshReturns(c, accessResponse)

ConcurrentSpec == ConcurrentInit /\ [][ConcurrentNext]_vars

\* The same with renders of the component in between: a granted refresh
\* updates the store, which renders the component again
InstanceNext == ConcurrentNext \/ Render

InstanceSpec == ConcurrentInit /\ [][InstanceNext]_vars

----------------------------------------------------------------------------
\* The dispatcher when every network call and every refresh call returns

LiveInit ==
    /\ FetchInit
    /\ config.accessTokenRetriever
    /\ config.unauthorizedRedirectUrl = NONE
    /\ config.pathname = "/dashboard"
    /\ config.onGlobal = Callbacks
    /\ config.onOptions = {}

LiveNext ==
    \/ \E c \in Slots, init \in PlainInits : Dispatch(c, 1, init)
    \/ \E c \in Slots, response \in Responses : FetchResponds(c, response)
    \/ \E c \in Slots, accessResponse \in RotatingTokens \cup {NONE} :
          RefreshReturns(c, accessResponse)

\* an awaited fetch and an awaited refresh call resolve in the end; nothing
\* obliges the application to call dispatch
LiveSpec ==
    /\ LiveInit
    /\ [][LiveNext]_vars
    /\ WF_vars(\E c \in Slots, response \in Responses : FetchResponds(c, response))
    /\ WF_vars(\E c \in Slots, accessResponse \in RotatingTokens \cup {NONE} :
                  RefreshReturns(c, accessResponse))

----------------------------------------------------------------------------
\* The parsing helpers called on their own

ParserStatuses == {200, 204, 404, 500}
StatusTexts == {"", "Not Found"}

ParserInit ==
    /\ config = hulkGlobalConfigDefault
    /\ hulkAuthState = InitialAuthState(config)
    /\ closures = <<[token |-> InitialAuthState(config).token, threshold |-> 0]>>
    /\ chain = [c \in Slots |-> IdleChain]
    /\ fetchData = NONE
    /\ document = <<Container(config.alertGlobalOptions.targetId, NONE)>>
    /\ alertThrew = FALSE
    /\ request = Nothing
    /\ \E text \in Texts :
          parse = [ text |-> text, called |-> NONE, lines |-> <<>>,
                    status |-> 0, statusText |-> "", bodyUsed |-> FALSE,
                    error |-> [throws |-> FALSE, undefined |-> TRUE, message |-> "",
                               code |-> 0, details |-> <<>>] ]
    /\ nDispatch = 0
    /\ nStoreOps = 0

\* parseErrorText(text)
ParseErrorText ==
    /\ parse.called = NONE
    /\ parse' = [parse EXCEPT !.called = "parseErrorText",
                              !.lines = parseErrorText(parse.text)]
    /\ UNCHANGED <<config, fetchVars, alertVars, request>>

\* hulkFetchErrorParser(response) on a response with the text as its body
ErrorParser(status, statusText, bodyUsed) ==
    /\ parse.called = NONE
    /\ parse' = [parse EXCEPT
                    !.called = "hulkFetchErrorParser",
                    !.status = status, !.statusText = statusText,
                    !.bodyUsed = bodyUsed,
                    !.error = hulkFetchErrorParser(status, statusText, bodyUsed,
                                                   parse.text)]
    /\ UNCHANGED <<config, fetchVars, alertVars, request>>

ParserNext ==
    \/ ParseErrorText
    \/ \E status \in ParserStatuses, statusText \in StatusTexts, bodyUsed \in BOOLEAN :
          ErrorParser(status, statusText, bodyUsed)

ParserSpec == ParserInit /\ [][ParserNext]_vars

----------------------------------------------------------------------------
\* Properties

LastOf(log) == log[Len(log)]
Count(log, cb) == Cardinality({i \in 1..Len(log) : log[i].cb = cb})
AllTokens == StoredTokens \cup RefreshTokens

\* C1: a dispatch chain with no other dispatch overlapping it makes at most
\* maxThreshold + 1 network calls, and a chain that gave up on a 401/403 has
\* resolved with onError (carrying that status) as its last and only error report
ThresholdBound ==
    \A c \in Slots :
        chain[c].alone =>
            /\ chain[c].calls <= maxThreshold + 1
            /\ chain[c].retries <= maxThreshold
            /\ chain[c].branch = "authExpired" =>
                  /\ chain[c].pc = "resolved"
                  /\ LastOf(chain[c].log).cb = "onError"
                  /\ LastOf(chain[c].log).code = chain[c].status
                  /\ LastOf(chain[c].log).by # NONE
                  /\ Count(chain[c].log, "onError") = 1

\* a chain that gave up because the threshold was exhausted after six calls
ThresholdBoundWitness ==
    \E c \in Slots :
        /\ chain[c].alone
        /\ chain[c].calls = maxThreshold + 1
        /\ chain[c].branch = "authExpired"
        /\ chain[c].accessResponse # NONE

\* C2: the network call that follows a granted refresh carries the refreshed
\* credential as its Authorization header
RetryCarriesNewCredential ==
    \A c \in Slots :
        chain[c].pc = "fetch" /\ chain[c].retries > 0 =>
            chain[c].sent.headers["authorization"] = Bearer(chain[c].accessResponse)

\* C3: the step that ends a dispatch in the refresh-failed-or-exhausted branch
\* leaves the auth state without token and without user
AuthExpiredClearsStore ==
    [][\A c \in Slots :
          chain[c].pc = "refresh" /\ chain'[c].branch = "authExpired" =>
              /\ hulkAuthState'.token = NONE
              /\ hulkAuthState'.user = NONE
              /\ ~isAuthenticated(hulkAuthState')]_vars

\* C4: the promise returned by dispatch never rejects
DispatchNeverRejects == \A c \in Slots : chain[c].pc # "rejected"

\* C5: the headers sent by a top-level dispatch are the default headers
\* overlaid with the caller's headers (Authorization aside, which is injected last)
HeaderMerge ==
    [][\A c \in Slots, k \in 1..Len(closures), init \in Inits :
          Dispatch(c, k, init) /\ chain'[c].pc = "fetch" =>
              \A h \in HeaderNames \ {"authorization"} :
                  chain'[c].sent.headers[h] =
                      IF Obj(init.headers)[h] # NONE
                      THEN Obj(init.headers)[h]
                      ELSE Obj(config.defaultHeaders)[h]]_vars

\* C6: a network call carries the Bearer header of the credential the store
\* holds when the call is made, and no Bearer header when it holds none
AuthorizationIsCurrent ==
    [][\A c \in Slots :
          chain'[c].calls = chain[c].calls + 1 =>
              IF hulkAuthState'.token # NONE
              THEN chain'[c].sent.headers["authorization"] = Bearer(hulkAuthState'.token)
              ELSE \A t \in AllTokens :
                      chain'[c].sent.headers["authorization"] # Bearer(t)]_vars

\* C7: update(U) sets each field U provides and keeps each field it does not;
\* update({}) changes nothing; the dispatcher's update({token}) keeps the user
MergeInvariant ==
    [][/\ \A U \in Updates :
             Update(U) =>
                /\ U.token # NONE => hulkAuthState'.token = U.token
                /\ U.token = NONE => hulkAuthState'.token = hulkAuthState.token
                /\ U.user # NONE => hulkAuthState'.user = U.user
                /\ U.user = NONE => hulkAuthState'.user = hulkAuthState.user
       /\ \A c \in Slots :
             chain'[c].retries = chain[c].retries + 1 =>
                /\ hulkAuthState'.token = chain'[c].accessResponse
                /\ hulkAuthState'.user = hulkAuthState.user]_vars

\* an update of the user alone kept the configured token
MergeInvariantWitness ==
    /\ nStoreOps = 1
    /\ hulkAuthState = [token |-> "a", user |-> "u2"]

\* C8: reset() sets the auth state to the configured defaultAuthState, or to
\* the empty state when none is configured
ResetRestoresInitial ==
    [][Reset =>
          hulkAuthState' = IF config.defaultAuthState = Nothing
                           THEN [token |-> NONE, user |-> NONE]
                           ELSE Get(config.defaultAuthState)]_vars

\* a reset restored the configured token after a refresh had replaced it
ResetRestoresInitialWitness ==
    /\ nStoreOps = 1
    /\ hulkAuthState = [token |-> "a", user |-> "u1"]
    /\ \E c \in Slots : chain[c].retries > 0

\* C9: isAuthenticated() holds exactly when the auth state has a token with a
\* non-empty access_token, whatever the user field is
AuthenticationPredicate ==
    /\ isAuthenticated(hulkAuthState) <=> hulkAuthState.token \in AllTokens \ {""}
    /\ \A u \in Users \cup {NONE} :
          isAuthenticated([hulkAuthState EXCEPT !.user = u])
              <=> isAuthenticated(hulkAuthState)

\* a token object with an empty access_token next to a user
AuthenticationPredicateWitness ==
    /\ hulkAuthState.token = ""
    /\ hulkAuthState.user # NONE
    /\ ~isAuthenticated(hulkAuthState)

\* C10: a dispatch called with clearThreshold: true sets the counter to 0
\* before the chain consumes anything, so the counter equals the retries
\* granted to this chain, which may again reach maxThreshold
ThresholdReset ==
    \A c \in Slots :
        chain[c].clearRequested /\ chain[c].alone /\ chain[c].pc # "idle" =>
            /\ closures[chain[c].cl].threshold = chain[c].retries
            /\ chain[c].retries <= maxThreshold

\* a chain that was called with clearThreshold on an exhausted counter and
\* was granted maxThreshold retries again
ThresholdResetWitness ==
    \E c \in Slots :
        /\ chain[c].clearRequested
        /\ chain[c].thresholdAtCall = maxThreshold
        /\ chain[c].retries = maxThreshold

\* the notification that closes the pending state
IsEnd(e) == e.cb = "onPending" /\ e.arg = "end"
IsStart(e) == e.cb = "onPending" /\ e.arg = "start"

\* C11: a dispatch whose single network call returned 2xx with a JSON body has
\* stored the body as data and has notified exactly onPending("start"),
\* onPending("end"), onSuccess(body), in this order, with no refresh call
SuccessPath ==
    \A c \in Slots :
        chain[c].branch = "success" /\ chain[c].calls = 1 =>
            /\ chain[c].pc = "resolved"
            /\ fetchData \in Payloads
            /\ Len(chain[c].log) = 3
            /\ IsStart(chain[c].log[1])
            /\ IsEnd(chain[c].log[2])
            /\ chain[c].log[3].cb = "onSuccess"
            /\ chain[c].log[3].arg = fetchData
            /\ Count(chain[c].log, "onError") = 0
            /\ chain[c].refreshes = 0

\* the second dispatch of a run succeeded with payload P2
SuccessPathWitness ==
    \E c \in Slots :
        /\ chain[c].branch = "success"
        /\ chain[c].calls = 1
        /\ nDispatch = 2
        /\ fetchData = "P2"
        /\ LastOf(chain[c].log).arg = "P2"
        /\ LastOf(chain[c].log).by = "global"

\* C12: a chain that succeeded after k >= 1 granted refresh-retries has made
\* k + 1 network calls and k refresh calls, the store holds the credential of
\* the last refresh, data is the payload and onSuccess was notified once; each
\* granted retry consumes exactly one unit of the counter
RefreshRetryOutcome ==
    /\ [](\A c \in Slots :
            chain[c].alone /\ chain[c].branch = "success" /\ chain[c].retries >= 1 =>
                /\ chain[c].retries <= maxThreshold
                /\ chain[c].calls = chain[c].retries + 1
                /\ chain[c].refreshes = chain[c].retries
                /\ hulkAuthState.token = chain[c].accessResponse
                /\ fetchData \in Payloads
                /\ fetchData = LastOf(chain[c].log).arg
                /\ Count(chain[c].log, "onSuccess") = 1
                /\ Count(chain[c].log, "onError") = 0)
    /\ [][\A c \in Slots :
            chain'[c].retries = chain[c].retries + 1 =>
                closures'[chain[c].cl].threshold =
                    closures[chain[c].cl].threshold + 1]_vars

\* success on the sixth call, after maxThreshold refreshes of which the last
\* returned credential c
RefreshRetryOutcomeWitness ==
    \E c \in Slots :
        /\ chain[c].branch = "success"
        /\ chain[c].retries = maxThreshold
        /\ chain[c].calls = maxThreshold + 1
        /\ hulkAuthState.token = "c"
        /\ fetchData = "P2"

\* the argument the redirect collaborator is called with
RedirectTarget(cfg) == cfg.unauthorizedRedirectUrl \o "?code=401&next=" \o cfg.pathname

\* C13: a dispatch that ended in the refresh-failed-or-exhausted branch has
\* called redirect exactly once, with <target>?code=401&next=<path>, when a
\* target is configured and the current path differs from it, and not at all
\* otherwise; a dispatch on any other branch has not called redirect
RedirectOnAuthExpiry ==
    \A c \in Slots :
        IF chain[c].branch = "authExpired"
        THEN IF /\ config.unauthorizedRedirectUrl # NONE
                /\ config.pathname # config.unauthorizedRedirectUrl
             THEN /\ Len(chain[c].redirects) = 1
                  /\ chain[c].redirects[1].url = RedirectTarget(config)
             ELSE chain[c].redirects = <<>>
        ELSE chain[c].redirects = <<>>

\* a refresh that returned nothing on /dashboard redirected to the login page
RedirectOnAuthExpiryWitness ==
    \E c \in Slots :
        /\ chain[c].branch = "authExpired"
        /\ chain[c].accessResponse = NONE
        /\ Len(chain[c].redirects) = 1
        /\ chain[c].redirects[1].url = "/login?code=401&next=/dashboard"

\* the last two notifications of a log are onPending("end") and onError with
\* the given message and code, and onError was notified once
EndsWithError(log, message, code) ==
    /\ Len(log) >= 2
    /\ IsEnd(log[Len(log) - 1])
    /\ LastOf(log).cb = "onError"
    /\ LastOf(log).arg = message
    /\ LastOf(log).code = code
    /\ Count(log, "onError") = 1

HttpError ==
    \A c \in Slots :
        /\ Terminal(c)
        /\ chain[c].calls = 1
        /\ chain[c].status \in Statuses \ {200}
        /\ ~(chain[c].status \in {401, 403} /\ config.accessTokenRetriever)
        => /\ chain[c].pc = "resolved"
           /\ EndsWithError(chain[c].log,
                            IF StatusText(chain[c].status) # ""
                            THEN StatusText(chain[c].status) ELSE "An error occurred",
                            chain[c].status)

\* C16: at every notification point the handler called is the one of the
\* hook's options when they define the callback, otherwise the global one when
\* the global options define it, and no handler when neither does
CallbackPrecedence ==
    \A c \in Slots :
        \A i \in 1..Len(chain[c].log) :
            LET e == chain[c].log[i]
            IN  /\ e.cb \in config.onOptions => e.by = "options"
                /\ e.cb \notin config.onOptions /\ e.cb \in config.onGlobal
                      => e.by = "global"
                /\ e.cb \notin config.onOptions \cup config.onGlobal => e.by = NONE

\* one dispatch whose onPending went to the hook's handler, although a global
\* one is defined too, and whose onSuccess went to the global handler
CallbackPrecedenceWitness ==
    \E c \in Slots :
        /\ config.onGlobal = Callbacks
        /\ chain[c].branch = "success"
        /\ chain[c].log[1].by = "options"
        /\ LastOf(chain[c].log).by = "global"

\* C17: a transport failure, a response of any status, and a refresh that
\* returned no credential leave the counter of every closure as it was
OnlyRetryConsumes ==
    [][\A c \in Slots :
          \/ FetchThrows(c)
          \/ \E response \in Responses : FetchResponds(c, response)
          \/ RefreshReturns(c, NONE)
          => closures' = closures]_vars

\* a chain that consumed two units and then gave up because the third
\* refresh returned no credential: the counter still stands at two
OnlyRetryConsumesWitness ==
    \E c \in Slots :
        /\ nDispatch = 1
        /\ chain[c].branch = "authExpired"
        /\ chain[c].accessResponse = NONE
        /\ chain[c].refreshes = 3
        /\ closures[chain[c].cl].threshold = 2

\* C18: the retry counter is one per hook instance: every dispatch closure the
\* instance has handed out, before or after a render, sees the same counter
ThresholdScope ==
    \A j, k \in 1..Len(closures) : closures[j].threshold = closures[k].threshold

\* the entries of container i that carry alertId, in order
EntriesOf(doc, i, alertId) ==
    SelectSeq(doc[i].children, LAMBDA e : e.id = alertId)

\* C19: with replaceDuplicates enabled every container holds at most one
\* entry per alert id
AlertUniqueness ==
    config.alertGlobalOptions.replaceDuplicates =>
        \A i \in 1..Len(document), a \in AlertIds :
            Len(EntriesOf(document, i, a)) <= 1

\* C20: with replaceDuplicates enabled, a push of non-empty content B with an
\* id into a container whose only entry for that id is the previously pushed A
\* leaves exactly one entry for the id in the container, showing B
ReplaceNotStack ==
    [][\A node \in Contents \ {""}, alertOptions \in AlertOptions :
          LET target == ResolveTarget(config, document, alertOptions)
          IN  /\ Push(node, alertOptions)
              /\ config.alertGlobalOptions.replaceDuplicates
              /\ target # 0
              /\ Len(EntriesOf(document, target, alertOptions.alertId)) = 1
              => EntriesOf(document', target, alertOptions.alertId) =
                     <<[id |-> alertOptions.alertId, text |-> node]>>]_vars

Descendants(doc, target, alertId) ==
    { <<i, j>> \in Entries(doc) :
          contains(doc, target, i) /\ doc[i].children[j].id = alertId }

\* C22: when an entry with the alert id is a descendant of the resolved
\* container, pop removes one such entry from under that container, whatever
\* the other containers hold; otherwise pop changes nothing; pop never raises
PopRemoves ==
    [][\A alertOptions \in AlertOptions :
          LET target == ResolveTarget(config, document, alertOptions)
              before == IF target = 0 THEN {}
                        ELSE Descendants(document, target, alertOptions.alertId)
          IN  Pop(alertOptions) =>
                /\ ~alertThrew'
                /\ IF before = {}
                   THEN document' = document
                   ELSE Cardinality(Descendants(document', target, alertOptions.alertId))
                            = Cardinality(before) - 1]_vars

\* C23: with replaceDuplicates disabled, a push of non-empty content into an
\* existing container appends one entry and touches nothing else, so n pushes
\* with one id leave n entries with that id in push order
PushStacks ==
    [][\A node \in Contents \ {""}, alertOptions \in AlertOptions :
          LET target == ResolveTarget(config, document, alertOptions)
          IN  /\ Push(node, alertOptions)
              /\ ~config.alertGlobalOptions.replaceDuplicates
              /\ target # 0
              => /\ ~alertThrew'
                 /\ document' = [document EXCEPT ![target].children =
                        Append(@, [id |-> alertOptions.alertId, text |-> node])]]_vars

\* three pushes A, B, A with one id are three entries in that order
PushStacksWitness ==
    /\ ~config.alertGlobalOptions.replaceDuplicates
    /\ \E i \in 1..Len(document) :
          document[i].children =
              <<[id |-> "x", text |-> "A"], [id |-> "x", text |-> "B"],
                [id |-> "x", text |-> "A"]>>

\* the string form the query string shall show for a value
StringForm(value) ==
    CASE value = Null -> "null"
      [] value = Num(0) -> "0"
      [] value = Num(1) -> "1"
      [] value = Num(10) -> "10"
      [] value = Num(-1) -> "-1"
      [] value = Bool(TRUE) -> "true"
      [] value = Bool(FALSE) -> "false"
      [] value.t = "string" -> value.s

\* the entries a query map shall contribute, in key order
ExpectedParams(query) ==
    LET kept == SelectSeq(query, LAMBDA e : e.value \notin {Undefined, NaN})
    IN  [i \in 1..Len(kept) |-> [key |-> kept[i].key, value |-> StringForm(kept[i].value)]]

\* C24: every request of a chain, the first and each retry, carries in key
\* order exactly the entries of the query map of the call whose value is
\* neither undefined nor NaN, null written "null" and the others in their
\* string form, each entry once
QuerySerialization ==
    \A i \in 1..Len(request.urls) :
        LET expected == IF request.asked.query = Nothing THEN <<>>
                        ELSE ExpectedParams(Get(request.asked.query))
        IN  /\ request.urls[i].searchParams = expected
            /\ Len(expected) = 0 => request.urls[i].search = ""
            /\ Len(expected) = 1 =>
                  request.urls[i].search =
                      "?" \o expected[1].key \o "=" \o expected[1].value
            /\ Len(expected) = 2 =>
                  request.urls[i].search =
                      "?" \o expected[1].key \o "=" \o expected[1].value \o
                      "&" \o expected[2].key \o "=" \o expected[2].value
            /\ request.urls[i].search = request.urls[1].search

\* the query of the example, shortened to the bound on keys, after all retries
QuerySerializationWitness ==
    /\ request.pc = "done"
    /\ Len(request.urls) = maxThreshold + 1
    /\ request.asked.query =
           Some(<<[key |-> "b", value |-> NaN], [key |-> "c", value |-> Null]>>)
    /\ \A i \in 1..Len(request.urls) : request.urls[i].search = "?c=null"

\* the line an element or a field value shall contribute: the message of an
\* object that has one, the string form of everything else
LineOf(value) ==
    CASE value.t = "object" ->
            IF \E i \in 1..Len(value.entries) : value.entries[i].key = messageKey
            THEN Message(value).s ELSE "[object Object]"
      [] value.t = "null" -> "null"
      [] value = Num(0) -> "0"
      [] value = Num(5) -> "5"
      [] value = Bool(FALSE) -> "false"
      [] value.t = "string" -> value.s

\* the prefix a key shall give its lines
PrefixOf(key) ==
    CASE key = <<"d", "e", "t", "a", "i", "l">> -> ""
      [] key = <<"e", "m", "a", "i", "l">> -> "Email: "
      [] key = <<>> -> ": "

\* the lines an object shall give: per entry in key order, one line per
\* element of an array value, one line for any other value
RECURSIVE ObjectLines(_)
ObjectLines(entries) ==
    IF entries = <<>> THEN <<>>
    ELSE LET e == Head(entries)
         IN  (IF e.value.t = "array"
              THEN [i \in 1..Len(e.value.items) |->
                       PrefixOf(e.key) \o LineOf(e.value.items[i])]
              ELSE <<PrefixOf(e.key) \o LineOf(e.value)>>)
             \o ObjectLines(Tail(entries))

\* C25: parseErrorText on a JSON object gives, in key order, one line per
\* scalar value (null included) and per array element, prefixed with the
\* capitalized key and ": " unless the key is exactly "detail"; a nested
\* object without a message gives its string form
ObjectBranch ==
    /\ parse.called = "parseErrorText"
    /\ parse.text.json # Nothing
    /\ Get(parse.text.json).t = "object"
    => parse.lines = ObjectLines(Get(parse.text.json).entries)

\* C26: parseErrorText on text that is not JSON gives the text alone; on a
\* JSON array it gives one string per element in order: the message of an
\* object that has one, else the string form, null included
ArrayBranch ==
    /\ parse.called = "parseErrorText"
    => /\ parse.text.json = Nothing => parse.lines = <<parse.text.raw>>
       /\ parse.text.json # Nothing /\ Get(parse.text.json).t = "array" =>
             parse.lines = [i \in 1..Len(Get(parse.text.json).items) |->
                               LineOf(Get(parse.text.json).items[i])]

\* C27: on a response whose body is still unread, hulkFetchErrorParser gives
\* undefined for a 2xx status and otherwise the status as code, the
\* statusText or "An error occurred" as message and parseErrorText(body) as
\* details, which for an empty body is the list of the empty string
DefaultErrorParser ==
    /\ parse.called = "hulkFetchErrorParser"
    /\ ~parse.bodyUsed
    => /\ ~parse.error.throws
       /\ parse.error.undefined <=> parse.status \in 200..299
       /\ ~parse.error.undefined =>
             /\ parse.error.code = parse.status
             /\ parse.error.message = IF parse.statusText = "" THEN "An error occurred"
                                      ELSE parse.statusText
             /\ parse.error.details = parseErrorText(parse.text)
             /\ parse.text.raw = "" => parse.error.details = <<"">>

\* a 404 without status text and with a validation body
DefaultErrorParserWitness ==
    /\ parse.called = "hulkFetchErrorParser"
    /\ ~parse.bodyUsed
    /\ parse.status = 404
    /\ parse.text.raw = "{\"email\":[\"Required\"],\"detail\":\"Required\"}"
    /\ parse.error.message = "An error occurred"
    /\ parse.error.details = <<"Email: Required", "Required">>

\* the positions of the log that hold an onPending("start") / onPending("end")
Starts(log) == {i \in 1..Len(log) : IsStart(log[i])}
Ends(log) == {i \in 1..Len(log) : IsEnd(log[i])}

\* C28: a chain with k >= 0 refresh-retries has notified onPending("start")
\* once per invocation, k + 1 times when k retries were granted, and
\* onPending("end") at most once, after every start and not while an
\* invocation is still to come
SingleEnd ==
    \A c \in Slots :
        LET log == chain[c].log
        IN  /\ Cardinality(Ends(log)) <= 1
            /\ \A e \in Ends(log), b \in Starts(log) : b < e
            /\ InFlight(c) => Ends(log) = {}
            /\ chain[c].pc # "idle" =>
                  Cardinality(Starts(log)) = chain[c].retries + 1

\* two granted retries, then success: three starts, one end, onSuccess
SingleEndWitness ==
    \E c \in Slots :
        /\ chain[c].retries = 2
        /\ chain[c].branch = "success"
        /\ Len(chain[c].log) = 5
        /\ Starts(chain[c].log) = {1, 2, 3}
        /\ Ends(chain[c].log) = {4}
        /\ \A i \in 1..4 : chain[c].log[i].by # NONE

\* C29: the counter of every dispatch closure stays within 0..maxThreshold,
\* whatever the interleaving of the chains that share it; a step changes it
\* only by +1, when it grants a refresh-retry to a chain of the closure, or
\* to 0, when it begins a dispatch that asks for clearThreshold
ThresholdRange ==
    /\ [](\A k \in 1..Len(closures) :
            closures[k].threshold \in 0..maxThreshold)
    /\ [][\A k \in 1..Len(closures) :
            \/ closures'[k].threshold = closures[k].threshold
            \/ /\ closures'[k].threshold = closures[k].threshold + 1
               /\ \E c \in DOMAIN chain :
                     /\ chain[c].cl = k
                     /\ chain[c].pc = "refresh"
                     /\ chain'[c].retries = chain[c].retries + 1
            \/ /\ closures'[k].threshold = 0
               /\ nDispatch' = nDispatch + 1
               /\ \E c \in DOMAIN chain :
                     /\ ~InFlight(c)
                     /\ chain'[c].cl = k
                     /\ chain'[c].calls = 1
                     /\ chain'[c].clearRequested]_vars

\* two chains of one closure in flight together have used up the counter
\* between them, two retries one and three the other
ThresholdRangeWitness ==
    /\ InFlight("A") /\ InFlight("B")
    /\ chain["A"].cl = chain["B"].cl
    /\ chain["A"].retries = 2
    /\ chain["B"].retries = 3
    /\ closures[chain["A"].cl].threshold = maxThreshold

\* the chain has ended in a branch that reports onSuccess or onError
Reported(c) ==
    /\ chain[c].pc = "resolved"
    /\ LastOf(chain[c].log).cb \in {"onSuccess", "onError"}

\* C30: when every network call and every refresh call returns, a dispatch
\* that is in flight, with or without clearThreshold, eventually ends in a
\* branch that reports onSuccess or onError
DispatchTerminates ==
    \A c \in Slots : InFlight(c) ~> Reported(c)

\* the chains begun so far, when no slot has been used twice
Begun == {c \in DOMAIN chain : chain[c].pc # "idle"}
RECURSIVE SumCalls(_)
SumCalls(S) ==
    IF S = {} THEN 0
    ELSE LET c == CHOOSE x \in S : TRUE IN chain[c].calls + SumCalls(S \ {c})

\* C31: the chains of one hook instance share one counter: N chains begun
\* without clearThreshold, overlapping in time, make at most maxThreshold + N
\* network calls altogether, since at most maxThreshold retries are granted
\* between two resets
SharedCounterBound ==
    /\ nDispatch = Cardinality(Begun)
    /\ \A c \in Begun : ~chain[c].clearRequested
    => SumCalls(Begun) <= maxThreshold + Cardinality(Begun)

\* C32: without a refresh collaborator a 401 or 403 response ends the
\* dispatch like any other non-2xx status: one network call, no refresh, no
\* retry, no redirect, the store untouched, and onPending("start"),
\* onPending("end"), onError with the status as code as the notifications
NoCollaborator ==
    /\ [](\A c \in Slots :
            /\ ~config.accessTokenRetriever
            /\ chain[c].status \in {401, 403}
            => /\ chain[c].pc = "resolved"
               /\ chain[c].calls = 1
               /\ chain[c].refreshes = 0
               /\ chain[c].retries = 0
               /\ chain[c].redirects = <<>>
               /\ Len(chain[c].log) = 3
               /\ IsStart(chain[c].log[1])
               /\ IsEnd(chain[c].log[2])
               /\ chain[c].log[3].cb = "onError"
               /\ chain[c].log[3].code = chain[c].status)
    /\ [][\A c \in Slots, response \in Responses :
            /\ ~config.accessTokenRetriever
            /\ response.status \in {401, 403}
            /\ FetchResponds(c, response)
            => hulkAuthState' = hulkAuthState]_vars

\* the chain gave up although the refresh returned a credential
Exhausted(c) == chain[c].branch = "authExpired" /\ chain[c].accessResponse # NONE

\* the refresh collaborator is called once per 401/403 response and on no
\* other step, and the step that gives up stores no credential
RefreshPerResponse ==
    [][\A c \in Slots :
          /\ \A response \in Responses :
                FetchResponds(c, response) =>
                    chain'[c].refreshes = chain[c].refreshes +
                        (IF response.status \in {401, 403} /\ config.accessTokenRetriever
                         THEN 1 ELSE 0)
          /\ chain'[c].refreshes # chain[c].refreshes =>
                \/ chain[c].pc = "fetch" /\ chain'[c].pc = "refresh"
                \/ ~InFlight(c) /\ chain'[c].calls = 1 /\ chain'[c].refreshes = 0
          /\ chain[c].pc = "refresh" /\ chain'[c].branch = "authExpired" =>
                hulkAuthState'.token \in {hulkAuthState.token, NONE}]_vars

AuthExpiredOrder ==
    \A c \in Slots :
        chain[c].branch = "authExpired" =>
            LET log == chain[c].log
                n == Len(log)
            IN  /\ chain[c].pc = "resolved"
                /\ chain[c].status \in {401, 403}
                /\ n >= 3
                /\ chain[c].updates # <<>>
                /\ LastOf(chain[c].updates) = [clear |-> TRUE, after |-> n - 2]
                /\ IsEnd(log[n - 1])
                /\ log[n].cb = "onError"
                /\ log[n].code = chain[c].status
                /\ Len(chain[c].redirects) <= 1
                /\ \A i \in 1..Len(chain[c].redirects) : chain[c].redirects[i].after = n

\* a 403 refused by the refresh collaborator, reported through the parser
\* to the global onError and followed by the redirect
AuthExpiredOrderWitness ==
    \E c \in Slots :
        /\ chain[c].branch = "authExpired"
        /\ chain[c].status = 403
        /\ config.errorParser # NONE
        /\ LastOf(chain[c].log).by = "global"
        /\ LastOf(chain[c].log).arg = "Forbidden"
        /\ Len(chain[c].redirects) = 1
        /\ chain[c].redirects[1].after = Len(chain[c].log)

\* C35: over its whole retry chain a dispatch notifies onSuccess and onError
\* at most once between them, and a dispatch that has returned has notified
\* exactly one of the two, exactly once, to the handler configured for it
OneOutcome ==
    \A c \in Slots :
        LET outcomes == Count(chain[c].log, "onSuccess") + Count(chain[c].log, "onError")
        IN  /\ outcomes <= 1
            /\ chain[c].pc = "resolved" =>
                  /\ outcomes = 1
                  /\ LastOf(chain[c].log).cb \in {"onSuccess", "onError"}
                  /\ LastOf(chain[c].log).by = Handler(config, LastOf(chain[c].log).cb)

\* a chain of three network calls that ended with the hook's own onError
OneOutcomeWitness ==
    \E c \in Slots :
        /\ chain[c].pc = "resolved"
        /\ chain[c].calls = 3
        /\ Count(chain[c].log, "onError") = 1
        /\ Count(chain[c].log, "onSuccess") = 0
        /\ LastOf(chain[c].log).by = "options"

\* C36: every onPending("start") of a dispatch is followed by an
\* onPending("end") of the same dispatch on every branch, so a dispatch that
\* has ended, in whatever way, has notified an end after its last start
PendingClosed ==
    \A c \in Slots :
        Terminal(c) =>
            /\ Ends(chain[c].log) # {}
            /\ \A b \in Starts(chain[c].log), e \in Ends(chain[c].log) : b < e

\* C37: the data of the hook changes only in a step that takes the 2xx branch,
\* where it becomes the result handed to onSuccess; a dispatch that ends in
\* any other way (transport failure, non-2xx, auth expired, a rejection)
\* leaves it as it was, so an earlier result survives a later failure
DataOnlyOnSuccess ==
    [][ /\ fetchData' # fetchData =>
              \E c \in Slots :
                  /\ chain[c].pc = "fetch"
                  /\ chain'[c].branch = "success"
                  /\ fetchData' = LastOf(chain'[c].log).arg
        /\ \A c \in Slots :
              /\ InFlight(c)
              /\ chain'[c].pc \in {"resolved", "rejected"}
              /\ chain'[c].branch # "success"
              => fetchData' = fetchData ]_vars

DataOnlyOnSuccessWitness ==
    \E c \in Slots :
        /\ chain[c].pc = "resolved"
        /\ chain[c].branch \in {"transport", "http", "authExpired"}
        /\ Count(chain[c].log, "onSuccess") = 0
        /\ fetchData \in Payloads

\* C38: once the auth state holds a credential, no update, whatever its
\* argument, makes isAuthenticated() false or removes the user; the only step
\* that does is a reset(), and only when the configured initial state has
\* no credential
UpdateNeverDeauthenticates ==
    [][ /\ \A U \in Updates :
              Update(U) /\ isAuthenticated(hulkAuthState) =>
                 /\ isAuthenticated(hulkAuthState')
                 /\ hulkAuthState.user # NONE => hulkAuthState'.user # NONE
        /\ isAuthenticated(hulkAuthState) /\ ~isAuthenticated(hulkAuthState') =>
              Reset /\ ~isAuthenticated(InitialAuthState(config)) ]_vars

\* C38, amended: an update whose token is absent (undefined) or carries a
\* non-empty access token keeps isAuthenticated() true, and no update removes
\* the user; an update whose token carries an empty access token replaces
\* the credential and makes isAuthenticated() false; the only other step
\* that de-authenticates is a reset() under a configured initial state
\* without a credential
UpdateKeepsCredential ==
    [][ /\ \A U \in Updates :
              Update(U) =>
                 /\ isAuthenticated(hulkAuthState) /\ U.token # "" =>
                       isAuthenticated(hulkAuthState')
                 /\ U.token = "" => ~isAuthenticated(hulkAuthState')
                 /\ hulkAuthState.user # NONE => hulkAuthState'.user # NONE
        /\ isAuthenticated(hulkAuthState) /\ ~isAuthenticated(hulkAuthState') =>
              \/ Reset /\ ~isAuthenticated(InitialAuthState(config))
              \/ \E U \in Updates : U.token = "" /\ Update(U) ]_vars

\* two updates without a token, one of them naming a user, left the
\* configured credential in place
UpdateKeepsCredentialWitness ==
    /\ nStoreOps = 2
    /\ config.defaultAuthState # Nothing
    /\ hulkAuthState = [token |-> "a", user |-> "u2"]

\* C39: every network call of a retry chain goes to the URL of the first
\* call of the chain (same path and query string) with the same method and the
\* same body, and with the same headers except, possibly, Authorization
RetryRepeatsRequest ==
    request.calls >= 1 =>
        /\ SameButAuthorization(Get(request.first), Get(request.sent))
        /\ Get(request.first).url =
              config.baseUrl \o RetryInput \o BuildURL(request.asked).search
        /\ Get(request.first).body = request.asked.body

\* a retried POST with a body, a query and a default header, whose
\* Authorization header is not that of the first call
RetryRepeatsRequestWitness ==
    /\ request.calls = 3
    /\ Get(request.sent).method = "POST"
    /\ Get(request.sent).body = Some("payload")
    /\ Get(request.sent).url = "https://api.test.com/items?a=null"
    /\ Get(request.sent).headers["content-type"] = "json"
    /\ Get(request.first).headers["authorization"] = NONE
    /\ Get(request.sent).headers["authorization"] = Bearer("c")

\* C40: the dispatcher writes the auth state on its refresh path only: the
\* call of dispatch and the classification of a fetch that ended by a
\* transport failure, a 2xx or a non-2xx response outside the refresh path
\* issue no update and leave the credential and the user as they were, and a
\* dispatch that ended without a refresh call has issued no update at all
StoreOnlyOnRefresh ==
    /\ [](\A c \in Slots : chain[c].refreshes = 0 => chain[c].updates = <<>>)
    /\ [][ /\ hulkAuthState' # hulkAuthState => \E c \in Slots : chain[c].pc = "refresh"
           /\ \A c \in Slots :
                 chain[c].pc \in {"idle", "fetch", "resolved", "rejected"} =>
                    /\ hulkAuthState' = hulkAuthState
                    /\ chain[c].pc = "fetch" => chain'[c].updates = chain[c].updates ]_vars

\* after an earlier chain stored a refreshed credential, a dispatch that
\* ended by a transport failure left it in the store
StoreOnlyOnRefreshWitness ==
    \E c \in Slots :
        /\ chain[c].pc = "resolved"
        /\ chain[c].branch = "transport"
        /\ chain[c].refreshes = 0
        /\ chain[c].updates = <<>>
        /\ hulkAuthState.token \in RefreshTokens

====
